---------------------------- MODULE Spec2Model ----------------------------
(***************************************************************************)
(* Model of gdal-dtm-exporter: the windowed export of a raster to an       *)
(* OpenEXR image (lib/src/mod.rs, export_dtm_to_exr), run once by the      *)
(* command line tool (gdal-dtm-exporter-bin/src/main.rs) and on a worker   *)
(* thread by the GUI (gui/src/main.rs, MyApp::update).                     *)
(*                                                                         *)
(* Every thread that runs export_dtm_to_exr has its own record th[t] with  *)
(* the function's arguments, its locals and its position (pc).  Thread     *)
(* MainThread is the command line tool's main thread; the GUI spawns its   *)
(* workers into free slots of th.                                          *)
(*                                                                         *)
(* Floating point values are modelled as fractions <<n, d>> in lowest      *)
(* terms with d >= 0; d = 0 stands for the IEEE results of a division by   *)
(* zero: <<0,0>> is NaN, <<1,0>> is +inf and <<-1,0>> is -inf.             *)
(***************************************************************************)
EXTENDS Integers, Sequences, FiniteSets, TLC

\* ------------------------------------------------------------- bounds
\* Raster widths and heights range over 1..MaxDim.
MaxDim == 5
\* Rasters have 0..MaxBands bands.
MaxBands == 2
\* The window scale factor ranges over 0..MaxScale (1..MaxScale in the GUI).
MaxScale == 6
\* compute_raster_min_max(approx_ok = true) may look at every k-th sample
\* only, k in 1..MaxSampleRate.
MaxSampleRate == 2
\* Slots for threads running export_dtm_to_exr.
MaxThreads == 2

Threads == 1 .. MaxThreads
MainThread == 1

VARIABLES
    th,                 \* th[t]: arguments, locals and position of thread t
    conversion_status,  \* MyApp.conversion_status
    channel             \* messages in the sync_channel(1) of MyApp

vars == <<th, conversion_status, channel>>

\* ------------------------------------------------------------- numbers
Abs(n) == IF n < 0 THEN -n ELSE n

Sign(n) == IF n < 0 THEN -1 ELSE IF n = 0 THEN 0 ELSE 1

RECURSIVE GCD(_, _)
GCD(a, b) == IF b = 0 THEN a ELSE GCD(b, a % b)

\* The value n / d of a floating point division.
Frac(n, d) ==
    IF d = 0
    THEN <<Sign(n), 0>>
    ELSE LET g == GCD(Abs(n), Abs(d))
             s == Sign(d)
         IN  <<(s * n) \div g, (s * d) \div g>>

\* The float of the integer n.
Float(n) == <<n, 1>>

\* The bug of not taking from_range.0 off the sample.
map_range_unshifted(from_range, to_range, s) ==
    LET num == s * (to_range[2] - to_range[1])
        den == from_range[2] - from_range[1]
        q   == Frac(num, den)
    IN  IF q[2] = 0 THEN q ELSE Frac(to_range[1] * q[2] + q[1], q[2])

\* to_range.0 + (s - from_range.0) * (to_range.1 - to_range.0)
\*            / (from_range.1 - from_range.0)
\* for integer-valued arguments; the sum with to_range.0 keeps NaN and the
\* infinities as they are.
map_range(from_range, to_range, s) ==
    LET num == (s - from_range[1]) * (to_range[2] - to_range[1])
        den == from_range[2] - from_range[1]
        q   == Frac(num, den)
    IN  IF q[2] = 0 THEN q ELSE Frac(to_range[1] * q[2] + q[1], q[2])

\* ------------------------------------------------------------- the raster
\* The rasters read: a "flat" raster holds the value b everywhere in band b; in
\* a "ramp" raster band 1 holds the row-major index of the pixel and band b
\* its b-th power plus b - 1.  Two bands differ at every pixel.
Rasters == {"flat", "ramp"}

\* The sample of band b at (x, y) of the raster data, raster_w wide.
Sample(data, raster_w, b, x, y) ==
    IF data = "flat" THEN b ELSE ((y * raster_w + x) ^ b) + (b - 1)

Pixels(raster_w, raster_h) == (0 .. raster_w - 1) \X (0 .. raster_h - 1)

SetMin(S) == CHOOSE m \in S : \A v \in S : m <= v

SetMax(S) == CHOOSE m \in S : \A v \in S : v <= m

\* band.compute_raster_min_max(true): the minimum and maximum of the samples
\* looked at, every rate-th sample in row-major order (rate = 1: all of them).
compute_raster_min_max(data, raster_w, raster_h, b, rate) ==
    LET seen == {Sample(data, raster_w, b, p[1], p[2]) :
                    p \in {q \in Pixels(raster_w, raster_h) :
                              ((q[2] * raster_w + q[1]) % rate) = 0}}
    IN  [band |-> b, min |-> SetMin(seen), max |-> SetMax(seen)]

\* band.read_as::<f32>(window, window_size, output_size, ..) with
\* output_size = window_size: the samples of the window, row-major.
read_as(data, raster_w, b, window, window_size) ==
    [k \in 1 .. window_size[1] * window_size[2] |->
        Sample(data, raster_w, b,
               window[1] + ((k - 1) % window_size[1]),
               window[2] + ((k - 1) \div window_size[1]))]

\* GDAL refuses a window that does not lie inside the raster.
WindowInRaster(raster_w, raster_h, window, window_size) ==
    /\ window_size[1] > 0
    /\ window_size[2] > 0
    /\ window[1] + window_size[1] <= raster_w
    /\ window[2] + window_size[2] <= raster_h

\* ------------------------------------------------------------- the tile loop
\* The bug of rounding the base size up instead of down.
region_size_rounded_up(raster_dim, window_scale_factor) ==
    (raster_dim + window_scale_factor - 1) \div window_scale_factor

\* let region_size_w = raster_w / window_scale_factor (and _h); a division by
\* zero panics, so this is used with window_scale_factor > 0 only.
region_size(raster_dim, window_scale_factor) == raster_dim \div window_scale_factor

\* The bug of a missing else branch: every window reaches the raster's edge.
region_to_read_to_edge(offset, raster_dim, region) == raster_dim - offset

\* The bug of a last tile that absorbs the remainder instead of leaving it to
\* a smaller tile.
region_to_read_absorbing(offset, raster_dim, region) ==
    IF offset + 2 * region > raster_dim THEN raster_dim - offset ELSE region

\* The bug of no special case for the last tile.
region_to_read_full(offset, raster_dim, region) == region

\* "Handle case where the last tile is smaller"
region_to_read(offset, raster_dim, region) ==
    IF offset >= raster_dim - region THEN raster_dim - offset ELSE region

\* bw_color of one sample.
bw_color(normalize, stats, value) ==
    IF normalize
    THEN map_range(<<stats.min, stats.max>>, <<0, 1>>, value)
    ELSE Float(value)

Rgb(v) == <<v, v, v>>

\* The bug of taking the buffer for column-major: sample k goes down the
\* window's column first.
put_pixels_column_major(data, x_offset, y_offset, region_to_read_w, normalize, stats) ==
    LET region_to_read_h == Len(data) \div region_to_read_w
    IN  [k \in 1 .. Len(data) |->
            [x     |-> x_offset + ((k - 1) \div region_to_read_h),
             y     |-> y_offset + ((k - 1) % region_to_read_h),
             color |-> Rgb(bw_color(normalize, stats, data[k]))]]

\* The put_pixel calls of one window, in order: rv.data().chunks(w) gives row
\* c, and sample i of it goes to (x_offset + i, y_offset + c).
put_pixels(data, x_offset, y_offset, region_to_read_w, normalize, stats) ==
    [k \in 1 .. Len(data) |->
        [x     |-> x_offset + ((k - 1) % region_to_read_w),
         y     |-> y_offset + ((k - 1) \div region_to_read_w),
         color |-> Rgb(bw_color(normalize, stats, data[k]))]]

\* The number of put_pixel calls made at each pixel, after the calls puts.
Written(writes, puts) ==
    [p \in DOMAIN writes |->
        writes[p] + Cardinality({k \in DOMAIN puts : <<puts[k].x, puts[k].y>> = p})]

\* The bug of writing only pixels that are still black: the first band wins.
RECURSIVE PaintedOnce(_, _, _)
PaintedOnce(image, puts, k) ==
    IF k > Len(puts)
    THEN image
    ELSE PaintedOnce(
             IF image[<<puts[k].x, puts[k].y>>] = <<<<0, 1>>, <<0, 1>>, <<0, 1>>>>
             THEN [image EXCEPT ![<<puts[k].x, puts[k].y>>] = puts[k].color]
             ELSE image,
             puts, k + 1)

\* The image after the put_pixel calls puts, the later call winning.
RECURSIVE Painted(_, _, _)
Painted(image, puts, k) ==
    IF k > Len(puts)
    THEN image
    ELSE Painted([image EXCEPT ![<<puts[k].x, puts[k].y>>] = puts[k].color],
                 puts, k + 1)

\* ------------------------------------------------------------- files, stdin
Absent == [kind |-> "absent"]
Old == [kind |-> "old"]
Partial == [kind |-> "partial"]
Exr(image) == [kind |-> "exr", image |-> image]

\* Lines the user may type at the prompt (<<>> is end of input).
Answers ==
    { <<"n", "\n">>, <<"n", "o", "\n">>, <<"y", "\n">>, <<"\n">>,
      <<>>, <<"n", "o">>, <<"N", "\n">> }

strip_suffix_newline(answer) ==
    IF Len(answer) > 0 /\ answer[Len(answer)] = "\n"
    THEN SubSeq(answer, 1, Len(answer) - 1)
    ELSE answer

\* The bug of comparing the line as read, with its newline.
DeclinesUnstripped(answer) == answer = <<"n">> \/ answer = <<"n", "o">>

Declines(answer) ==
    LET a == strip_suffix_newline(answer)
    IN  a = <<"n">> \/ a = <<"n", "o">>

\* ------------------------------------------------------------- thread records
NoStats == [band |-> 0, min |-> 0, max |-> 0]

Idle ==
    [pc |-> "idle", data |-> "flat", raster_w |-> 0, raster_h |-> 0, num_bands |-> 0,
     window_scale_factor |-> 0, force_overwrite |-> FALSE, normalize |-> FALSE,
     i |-> 0, stats |-> NoStats, x_offset |-> 0, y_offset |-> 0,
     output_image |-> <<>>, file |-> Absent, file0 |-> Absent,
     windows |-> <<>>, asked |-> FALSE, answer |-> <<>>, err |-> "none",
     writes |-> <<>>]

\* A call of export_dtm_to_exr(in_image_path, export_dir, wsf, fo, nz) on the
\* w x h raster data with nb bands, the output path holding file.
Called(data, w, h, nb, wsf, fo, nz, file) ==
    [Idle EXCEPT !.pc = "start", !.data = data, !.raster_w = w, !.raster_h = h,
                 !.num_bands = nb, !.window_scale_factor = wsf,
                 !.force_overwrite = fo, !.normalize = nz,
                 !.file = file, !.file0 = file]

Fail(r, err) == [r EXCEPT !.pc = "error", !.err = err]

Panic(r, err) == [r EXCEPT !.pc = "panicked", !.err = err]

\* The bug of the exclusive range 1..num_bands.
BandLoopExclusive(r, i) ==
    IF i < r.num_bands
    THEN [r EXCEPT !.pc = "band", !.i = i]
    ELSE [r EXCEPT !.pc = "confirm", !.i = i]

\* for i in 1..=num_bands: the loop goes on with band i, or is over.
BandLoop(r, i) ==
    IF i <= r.num_bands
    THEN [r EXCEPT !.pc = "band", !.i = i]
    ELSE [r EXCEPT !.pc = "confirm", !.i = i]

\* Rgb32FImage::new(raster_w, raster_h): every channel 0.0.
NewImage(raster_w, raster_h) ==
    [p \in Pixels(raster_w, raster_h) |-> Rgb(Float(0))]

\* ------------------------------------------------------------- export_dtm_to_exr
\* Lines 25-55: the export directory is created, the dataset opened, the
\* output image allocated and the output path built.
Open(t) ==
    /\ th[t].pc = "start"
    /\ th' = [th EXCEPT ![t] =
                BandLoop([th[t] EXCEPT
                             !.output_image = NewImage(th[t].raster_w, th[t].raster_h),
                             !.writes = [p \in Pixels(th[t].raster_w, th[t].raster_h) |-> 0]],
                         1)]
    /\ UNCHANGED <<conversion_status, channel>>

\* One of the ? of lines 25-50 returns the error.
OpenFails(t) ==
    /\ th[t].pc = "start"
    /\ th' = [th EXCEPT ![t] = Fail(@, "open")]
    /\ UNCHANGED <<conversion_status, channel>>

\* Lines 60-76: the band is fetched and its statistics are computed.
ComputeStats(t) ==
    /\ th[t].pc = "band"
    /\ \E rate \in 1 .. MaxSampleRate :
          th' = [th EXCEPT ![t] =
                    [th[t] EXCEPT !.pc = "regions",
                                  !.stats = compute_raster_min_max(
                                      th[t].data, th[t].raster_w, th[t].raster_h, th[t].i, rate)]]
    /\ UNCHANGED <<conversion_status, channel>>

\* rasterband(i)?, description()? or compute_raster_min_max(true)? fails.
BandFails(t) ==
    /\ th[t].pc = "band"
    /\ th' = [th EXCEPT ![t] = Fail(@, "band")]
    /\ UNCHANGED <<conversion_status, channel>>

\* Lines 79-86: the region sizes and the two step_by iterators.  The division
\* panics for a scale factor of 0, step_by panics for a step of 0.
BeginTiles(t) ==
    LET r == th[t]
    IN  /\ r.pc = "regions"
        /\ th' = [th EXCEPT ![t] =
                    IF r.window_scale_factor = 0
                    THEN Panic(r, "attempt to divide by zero")
                    ELSE IF \/ region_size(r.raster_w, r.window_scale_factor) = 0
                            \/ region_size(r.raster_h, r.window_scale_factor) = 0
                         THEN Panic(r, "assertion failed: step != 0")
                         ELSE [r EXCEPT !.pc = "tile", !.x_offset = 0, !.y_offset = 0]]
        /\ UNCHANGED <<conversion_status, channel>>

\* The window read at (x_offset, y_offset): <<window, window_size>>.
Window(r) ==
    LET region_size_w == region_size(r.raster_w, r.window_scale_factor)
        region_size_h == region_size(r.raster_h, r.window_scale_factor)
    IN  << <<r.x_offset, r.y_offset>>,
           <<region_to_read(r.x_offset, r.raster_w, region_size_w),
             region_to_read(r.y_offset, r.raster_h, region_size_h)>> >>

\* The bug of inclusive ranges, (0..=raster_w) and (0..=raster_h).
NextWindowInclusive(r) ==
    LET region_size_w == region_size(r.raster_w, r.window_scale_factor)
        region_size_h == region_size(r.raster_h, r.window_scale_factor)
    IN  IF r.y_offset + region_size_h <= r.raster_h
        THEN [r EXCEPT !.y_offset = @ + region_size_h]
        ELSE IF r.x_offset + region_size_w <= r.raster_w
             THEN [r EXCEPT !.x_offset = @ + region_size_w, !.y_offset = 0]
             ELSE BandLoop(r, r.i + 1)

\* The bug of leaving the band after its first column of windows.
NextWindowOneColumn(r) ==
    LET region_size_h == region_size(r.raster_h, r.window_scale_factor)
    IN  IF r.y_offset + region_size_h < r.raster_h
        THEN [r EXCEPT !.y_offset = @ + region_size_h]
        ELSE BandLoop(r, r.i + 1)

\* The step of the two for loops after a window: the next y_offset, else the
\* next x_offset, else the next band.
NextWindow(r) ==
    LET region_size_w == region_size(r.raster_w, r.window_scale_factor)
        region_size_h == region_size(r.raster_h, r.window_scale_factor)
    IN  IF r.y_offset + region_size_h < r.raster_h
        THEN [r EXCEPT !.y_offset = @ + region_size_h]
        ELSE IF r.x_offset + region_size_w < r.raster_w
             THEN [r EXCEPT !.x_offset = @ + region_size_w, !.y_offset = 0]
             ELSE BandLoop(r, r.i + 1)

\* Lines 94-152: one window is read, mapped and written into output_image.
\* put_pixel panics on a coordinate outside the image.
ProcessWindow(t) ==
    LET r    == th[t]
        win  == Window(r)
        data == read_as(r.data, r.raster_w, r.i, win[1], win[2])
        puts == put_pixels(data, r.x_offset, r.y_offset, win[2][1], r.normalize, r.stats)
        seen == [r EXCEPT !.windows = Append(@, <<r.i, win[1], win[2]>>)]
    IN  /\ r.pc = "tile"
        /\ WindowInRaster(r.raster_w, r.raster_h, win[1], win[2])
        /\ th' = [th EXCEPT ![t] =
                    IF \A k \in 1 .. Len(puts) :
                          <<puts[k].x, puts[k].y>> \in Pixels(r.raster_w, r.raster_h)
                    THEN NextWindow([seen EXCEPT !.output_image = Painted(@, puts, 1),
                                                 !.writes = Written(@, puts)])
                    ELSE Panic(seen, "Image index out of bounds")]
        /\ UNCHANGED <<conversion_status, channel>>

\* band.read_as(..)? returns an error.
ReadFails(t) ==
    /\ th[t].pc = "tile"
    /\ th' = [th EXCEPT ![t] =
                Fail([th[t] EXCEPT !.windows =
                         Append(@, <<th[t].i, Window(th[t])[1], Window(th[t])[2]>>)], "read")]
    /\ UNCHANGED <<conversion_status, channel>>

Exists(file) == file.kind # "absent"

\* Lines 160-176: the overwrite guard.
ConfirmOverwrite(t) ==
    LET r == th[t]
    IN  /\ r.pc = "confirm"
        /\ IF ~r.force_overwrite /\ Exists(r.file)
           THEN \E answer \in Answers :
                   th' = [th EXCEPT ![t] =
                            IF Declines(answer)
                            THEN Fail([r EXCEPT !.asked = TRUE, !.answer = answer], "declined")
                            ELSE [r EXCEPT !.pc = "save", !.asked = TRUE, !.answer = answer]]
           ELSE th' = [th EXCEPT ![t] = [r EXCEPT !.pc = "save"]]
        /\ UNCHANGED <<conversion_status, channel>>

\* lock.read_line(&mut answer)? returns an error.
ReadLineFails(t) ==
    /\ th[t].pc = "confirm"
    /\ ~th[t].force_overwrite /\ Exists(th[t].file)
    /\ th' = [th EXCEPT ![t] = Fail([@ EXCEPT !.asked = TRUE], "stdin")]
    /\ UNCHANGED <<conversion_status, channel>>

\* Line 178: output_image.save(&output_image_path) succeeds.
Save(t) ==
    /\ th[t].pc = "save"
    /\ th' = [th EXCEPT ![t] = [th[t] EXCEPT !.pc = "done", !.file = Exr(th[t].output_image)]]
    /\ UNCHANGED <<conversion_status, channel>>

\* Line 178: save returns an error, before it created the file (the file is
\* as it was) or after it (the file is truncated or partly written).
SaveFails(t) ==
    /\ th[t].pc = "save"
    /\ \E f \in {th[t].file, Partial} :
          th' = [th EXCEPT ![t] = Fail([@ EXCEPT !.file = f], "save")]
    /\ UNCHANGED <<conversion_status, channel>>

export_dtm_to_exr(t) ==
    \/ Open(t)
    \/ OpenFails(t)
    \/ ComputeStats(t)
    \/ BandFails(t)
    \/ BeginTiles(t)
    \/ ProcessWindow(t)
    \/ ReadFails(t)
    \/ ConfirmOverwrite(t)
    \/ ReadLineFails(t)
    \/ Save(t)
    \/ SaveFails(t)

\* ------------------------------------------------------------- the command line tool
\* main of gdal-dtm-exporter-bin calls export_dtm_to_exr once with the parsed
\* arguments.
Init ==
    /\ \E data \in Rasters, w \in 1 .. MaxDim, h \in 1 .. MaxDim,
          nb \in 0 .. MaxBands, wsf \in 0 .. MaxScale, fo \in BOOLEAN,
          nz \in BOOLEAN, file \in {Absent, Old} :
          th = [t \in Threads |->
                  IF t = MainThread
                  THEN Called(data, w, h, nb, wsf, fo, nz, file)
                  ELSE Idle]
    /\ conversion_status = "NotStarted"
    /\ channel = <<>>

Next == export_dtm_to_exr(MainThread)

Spec == Init /\ [][Next]_vars

\* ------------------------------------------------------------- the GUI
\* std::sync::mpsc::sync_channel(1)
ChannelCapacity == 1
\* egui::widgets::Slider::new(&mut self.window_scale_factor, 1.0..=100.0)
SliderMin == 1
SliderMax == 100

\* self.window_scale_factor as usize, for the values the slider can hold.
SliderScales == {wsf \in 1 .. MaxScale : SliderMin <= wsf /\ wsf <= SliderMax}

FreeSlot(t) ==
    /\ th[t].pc = "idle"
    /\ \A u \in Threads : th[u].pc = "idle" => t <= u

\* The bug of showing the export button whatever the status is.
UpdateExportAnytime ==
    /\ conversion_status' = "InProgress"
    /\ \E t \in Threads, data \in Rasters, w \in 1 .. MaxDim, h \in 1 .. MaxDim,
          nb \in 0 .. MaxBands, wsf \in SliderScales, overwrite_output \in BOOLEAN,
          normalize \in BOOLEAN, file \in {Absent, Old} :
          /\ FreeSlot(t)
          /\ th' = [th EXCEPT ![t] =
                      Called(data, w, h, nb, wsf, overwrite_output, normalize, file)]
    /\ UNCHANGED channel

\* A frame in which the user clicks "Export to OpenEXR" (the button is shown
\* for NotStarted and Finished only) and the input file exists: the status
\* becomes InProgress and the worker thread is spawned with the values the
\* widgets hold in this frame.
UpdateExport ==
    /\ conversion_status \in {"NotStarted", "Finished"}
    /\ conversion_status' = "InProgress"
    /\ \E t \in Threads, data \in Rasters, w \in 1 .. MaxDim, h \in 1 .. MaxDim,
          nb \in 0 .. MaxBands, wsf \in SliderScales, overwrite_output \in BOOLEAN,
          normalize \in BOOLEAN, file \in {Absent, Old} :
          /\ FreeSlot(t)
          /\ th' = [th EXCEPT ![t] =
                      Called(data, w, h, nb, wsf, overwrite_output, normalize, file)]
    /\ UNCHANGED channel

\* A frame for NotStarted or Finished that spawns nothing: no click, or a
\* click with an input file that does not exist.
UpdateIdle ==
    /\ conversion_status \in {"NotStarted", "Finished"}
    /\ UNCHANGED <<th, conversion_status, channel>>

\* The bug of looking at the result without taking it out of the channel.
UpdatePollPeek ==
    /\ conversion_status = "InProgress"
    /\ conversion_status' = IF channel # <<>> THEN "Finished" ELSE conversion_status
    /\ UNCHANGED <<th, channel>>

\* The bug of taking "no result yet" for a result.
UpdatePollEager ==
    /\ conversion_status = "InProgress"
    /\ conversion_status' = "Finished"
    /\ channel' = IF channel # <<>> THEN Tail(channel) ELSE channel
    /\ UNCHANGED th

\* A frame for InProgress: self.channel_rx.try_recv().
UpdatePoll ==
    /\ conversion_status = "InProgress"
    /\ IF channel # <<>>
       THEN /\ conversion_status' = "Finished"
            /\ channel' = Tail(channel)
       ELSE UNCHANGED <<conversion_status, channel>>
    /\ UNCHANGED th

\* MyApp::update, one frame.
Update == UpdateExport \/ UpdateIdle \/ UpdatePoll

\* The worker's tx.send(result) once export_dtm_to_exr has returned: true for
\* Ok, false for Err.  send blocks while the channel is full; after it the
\* thread ends.
Send(t) ==
    /\ th[t].pc \in {"done", "error"}
    /\ Len(channel) < ChannelCapacity
    /\ channel' = Append(channel, th[t].pc = "done")
    /\ th' = [th EXCEPT ![t] = Idle]
    /\ UNCHANGED conversion_status

\* MyApp::new
InitGui ==
    /\ th = [t \in Threads |-> Idle]
    /\ conversion_status = "NotStarted"
    /\ channel = <<>>

NextGui ==
    \/ Update
    \/ \E t \in Threads : export_dtm_to_exr(t) \/ Send(t)

SpecGui == InitGui /\ [][NextGui]_vars

\* ------------------------------------------------------------- properties
\* The export of the command line tool.
M == th[MainThread]

\* 1 <= scale_factor <= min(width, height)
ValidScale(r) ==
    /\ 1 <= r.window_scale_factor
    /\ r.window_scale_factor <= r.raster_w
    /\ r.window_scale_factor <= r.raster_h

\* The bands whose tile loop is over.
BandsDone(r) == IF r.i = 0 THEN 0 ELSE r.i - 1

\* A window's parts.
WinBand(win) == win[1]
WinX(win) == win[2][1]
WinY(win) == win[2][2]
WinW(win) == win[3][1]
WinH(win) == win[3][2]

\* Window win = <<band, <<x, y>>, <<w, h>>>> holds pixel p.
InWindow(p, win) ==
    /\ win[2][1] <= p[1] /\ p[1] < win[2][1] + win[3][1]
    /\ win[2][2] <= p[2] /\ p[2] < win[2][2] + win[3][2]

\* The windows of band b that hold pixel p.
WindowsAt(r, b, p) ==
    {k \in DOMAIN r.windows : r.windows[k][1] = b /\ InWindow(p, r.windows[k])}

\* Every pixel of the raster lies in exactly one window of band b.
CoveredOnce(r, b) ==
    \A p \in Pixels(r.raster_w, r.raster_h) : Cardinality(WindowsAt(r, b, p)) = 1

\* C1: for 1 <= scale_factor <= min(width, height), the windows of a band
\* whose tile loop is over are pairwise disjoint and their union is the whole
\* raster: every pixel lies in exactly one of them.  Checked for each band
\* where its tile loop ends, back at the head of the band loop; no window of
\* a later band is there yet.
C1_Coverage ==
    (ValidScale(M) /\ M.pc \in {"band", "confirm"} /\ BandsDone(M) >= 1) =>
        /\ CoveredOnce(M, BandsDone(M))
        /\ \A k \in DOMAIN M.windows : WinBand(M.windows[k]) <= BandsDone(M)

\* A finished export of a 5 x 3 raster read with scale factor 2: three
\* columns of windows, the last one narrower.
C1_Witness ==
    /\ M.pc = "done" /\ M.num_bands = 2
    /\ M.raster_w = 5 /\ M.raster_h = 3 /\ M.window_scale_factor = 2
    /\ Len(M.windows) = 18

\* The size of a tile that starts at offset and is the last along its axis,
\* were it to absorb the remainder: larger than the base size.
LastAbsorbs(offset, size, dim, scale) ==
    /\ (offset + size = dim) => size > dim \div scale
    /\ size >= dim \div scale

\* C2 as stated: when a dimension is not divisible by scale_factor, the last
\* tile along that axis is larger than the base size dimension / scale_factor
\* and no smaller remainder tile follows it.
C2_LastTileAbsorbs ==
    ValidScale(M) =>
        \A k \in DOMAIN M.windows :
            LET win == M.windows[k]
            IN  /\ (M.raster_w % M.window_scale_factor) # 0 =>
                       LastAbsorbs(WinX(win), WinW(win), M.raster_w, M.window_scale_factor)
                /\ (M.raster_h % M.window_scale_factor) # 0 =>
                       LastAbsorbs(WinY(win), WinH(win), M.raster_h, M.window_scale_factor)

\* The size of a tile at offset along an axis of length dim with base size
\* dim / scale: the base size, but for a tile that ends at the raster's edge
\* the remainder of dim by the base size when there is one.
TileSizeOk(offset, size, dim, scale) ==
    LET base == dim \div scale
    IN  IF offset + size = dim
        THEN size = dim - offset
             /\ size = (IF (dim % base) = 0 THEN base ELSE dim % base)
        ELSE size = base /\ offset + size < dim

\* C2 (amended): the last tile along an axis has size dimension - offset,
\* which is never larger than the base size: it is the remainder of the
\* dimension by the base size when the base size does not divide the
\* dimension (an extra, smaller tile after the full ones) and the base size
\* otherwise; every other tile has the base size.
C2_LastTileRemainder ==
    ValidScale(M) =>
        \A k \in DOMAIN M.windows :
            LET win == M.windows[k]
            IN  /\ TileSizeOk(WinX(win), WinW(win), M.raster_w, M.window_scale_factor)
                /\ TileSizeOk(WinY(win), WinH(win), M.raster_h, M.window_scale_factor)

\* Width 5 read with scale factor 2 (base width 2): after the columns at 0
\* and 2 a third column of width 1 starts at offset 4.
C2_Witness ==
    /\ M.raster_w = 5 /\ M.window_scale_factor = 2 /\ M.pc = "done"
    /\ \E k \in DOMAIN M.windows :
          WinX(M.windows[k]) = 4 /\ WinW(M.windows[k]) = 1
    /\ \E k \in DOMAIN M.windows :
          WinX(M.windows[k]) = 2 /\ WinW(M.windows[k]) = 2

\* C3: with scale_factor = 1 the tile loop produces exactly one window per
\* band, with offset (0, 0) and size (width, height).
C3_WholeRaster ==
    M.window_scale_factor = 1 =>
        /\ \A k \in DOMAIN M.windows :
              /\ M.windows[k][2] = <<0, 0>>
              /\ M.windows[k][3] = <<M.raster_w, M.raster_h>>
        /\ \A b \in 1 .. BandsDone(M) :
              Cardinality({k \in DOMAIN M.windows : WinBand(M.windows[k]) = b}) = 1
        /\ Len(M.windows) <= M.num_bands

\* A finished export of a two-band 5 x 4 raster with scale factor 1.
C3_Witness ==
    /\ M.pc = "done" /\ M.window_scale_factor = 1 /\ M.num_bands = 2
    /\ M.raster_w = 5 /\ M.raster_h = 4
    /\ M.windows = << <<1, <<0, 0>>, <<5, 4>> >>, <<2, <<0, 0>>, <<5, 4>> >> >>

\* The put_pixel coordinates of window win.
PutCoords(r, win) ==
    LET puts == put_pixels(read_as(r.data, r.raster_w, win[1], win[2], win[3]),
                           WinX(win), WinY(win), WinW(win), r.normalize, r.stats)
    IN  {<<puts[k].x, puts[k].y>> : k \in DOMAIN puts}

\* C4: every window of the tile loop has width > 0, height > 0,
\* x_offset + width <= raster width and y_offset + height <= raster height,
\* and every put_pixel coordinate written for it lies inside the image.
\* Checked for each window when it is the latest one.
C4_WindowsInBounds ==
    /\ M.err # "Image index out of bounds"
    /\ M.windows # <<>> =>
          LET win == M.windows[Len(M.windows)]
          IN  /\ WinW(win) > 0 /\ WinH(win) > 0
              /\ WinX(win) + WinW(win) <= M.raster_w
              /\ WinY(win) + WinH(win) <= M.raster_h
              /\ PutCoords(M, win) \subseteq Pixels(M.raster_w, M.raster_h)
              /\ PutCoords(M, win) \subseteq DOMAIN M.output_image

\* The last window of a 5 x 5 raster read with scale factor 2 was written:
\* the 1 x 1 window at (4, 4).
C4_Witness ==
    /\ M.raster_w = 5 /\ M.raster_h = 5 /\ M.window_scale_factor = 2
    /\ M.pc = "confirm" /\ M.num_bands = 2 /\ Len(M.windows) = 18
    /\ M.windows[Len(M.windows)] = <<M.num_bands, <<4, 4>>, <<1, 1>> >>

\* A scale factor outside 1 .. min(width, height).
BadScale(r) ==
    \/ r.window_scale_factor = 0
    \/ r.window_scale_factor > r.raster_w
    \/ r.window_scale_factor > r.raster_h

\* C5: a scale factor of 0, or one greater than the raster's width or height,
\* is rejected with an error returned to the caller before any window is
\* read: the export neither crashes nor goes on to produce an image.  Stated
\* for rasters that have a band, whose tile loop is entered.
C5_BadScaleRejected ==
    (BadScale(M) /\ M.num_bands >= 1) =>
        /\ M.pc \notin {"panicked", "done"}
        /\ M.windows = <<>>

\* The mapped value of band b at pixel p, with the statistics stats.
Mapped(r, stats, b, p) ==
    Rgb(bw_color(r.normalize, stats, Sample(r.data, r.raster_w, b, p[1], p[2])))

\* C6: after the export of a raster with two or more bands every pixel of the
\* output image holds the mapped value of the last band at that coordinate.
C6_LastBandWins ==
    (M.pc = "done" /\ M.num_bands >= 2) =>
        /\ M.stats.band = M.num_bands
        /\ \A p \in Pixels(M.raster_w, M.raster_h) :
              M.output_image[p] = Mapped(M, M.stats, M.num_bands, p)
        /\ M.file = Exr(M.output_image)

\* A finished export of a two-band 3 x 2 raster without normalization: pixel
\* (2, 1) holds 26, the sample of band 2, and not 5, the sample of band 1.
C6_Witness ==
    /\ M.pc = "done" /\ M.num_bands = 2 /\ ~M.normalize /\ M.data = "ramp"
    /\ M.raster_w = 3 /\ M.raster_h = 2 /\ M.window_scale_factor = 2
    /\ M.output_image[<<2, 1>>] = Rgb(Float(26))
    /\ Sample("ramp", 3, 1, 2, 1) = 5

\* One step of the export from r to q keeps the order of the band loop.
BandOrderStep(r, q) ==
    /\ q.i \in {r.i, r.i + 1}
    /\ q.i <= q.num_bands + 1
    /\ q.stats # r.stats =>
          /\ r.pc = "band" /\ q.stats.band = r.i /\ r.stats.band = r.i - 1
          /\ q.windows = r.windows
          /\ \A k \in DOMAIN r.windows : WinBand(r.windows[k]) < r.i
          /\ \A b \in 1 .. r.i - 1 : CoveredOnce(r, b)
    /\ q.windows # r.windows =>
          /\ r.pc = "tile" /\ r.stats.band = r.i
          /\ Len(q.windows) = Len(r.windows) + 1
          /\ SubSeq(q.windows, 1, Len(r.windows)) = r.windows
          /\ WinBand(q.windows[Len(q.windows)]) = r.i
    /\ (q.output_image # r.output_image /\ r.pc # "start") =>
          r.pc = "tile" /\ r.stats.band = r.i
    /\ q.file # r.file =>
          /\ r.pc = "save" /\ r.i = r.num_bands + 1
          /\ q.windows = r.windows /\ q.output_image = r.output_image
          /\ \A b \in 1 .. r.num_bands : CoveredOnce(r, b)

\* C7: bands are processed one after another in increasing order; within a
\* band the statistics are computed before any of its windows is read or
\* mapped; every window of a band is done before the statistics of the next
\* band are computed; the image is encoded only after the last band is done.
C7_BandOrder == [][BandOrderStep(th[MainThread], th'[MainThread])]_vars

\* The statistics of band 2 are computed with the four windows of band 1 done,
\* and the export goes on to finish.
C7_Witness ==
    /\ M.pc = "done" /\ M.num_bands = 2 /\ M.stats.band = 2
    /\ M.raster_w = 2 /\ M.raster_h = 2 /\ M.window_scale_factor = 2
    /\ Len(M.windows) = 8
    /\ WinBand(M.windows[4]) = 1 /\ WinBand(M.windows[5]) = 2

\* C8: the output file is written by the final save only, and an export that
\* does not succeed (an error at any step) leaves the file as it was before
\* the export started.  Stated for the exports that have windows to process.
C8_FileUntouchedOnFailure ==
    (ValidScale(M) /\ M.num_bands >= 1 /\ M.pc # "done") => M.file = M.file0

\* C9 as stated: the overwrite prompt is issued before the statistics of any
\* band are computed and before the first window is read.
C9_PromptBeforeCore ==
    M.asked => (M.stats = NoStats /\ M.windows = <<>>)

\* C9 (amended): the prompt is issued after the core ran, between the tiling
\* work and the final save: when the export has asked, the statistics of
\* every band were computed and every window of every band was read and
\* written, and nothing was saved before the answer.
C9_PromptAfterTiling ==
    M.asked =>
        /\ M.pc \in {"save", "done", "error"}
        /\ M.i = M.num_bands + 1
        /\ M.stats.band = M.num_bands
        /\ \A b \in 1 .. M.num_bands : CoveredOnce(M, b)
        /\ M.pc = "save" => M.file = M.file0
        /\ M.err \in {"declined", "stdin"} => M.file = M.file0

\* The user answered "y" after the 18 windows of two bands were written, and
\* the save is still to come.
C9_Witness ==
    /\ M.asked /\ M.answer = <<"y", "\n">> /\ M.pc = "save"
    /\ M.num_bands = 2 /\ Len(M.windows) = 18 /\ M.file = Old

\* One step of the GUI keeps the hand-over of the export's completion.
HandOverStep ==
    /\ (conversion_status = "InProgress" /\ channel = <<>>) =>
          conversion_status' = "InProgress"
    /\ (conversion_status = "InProgress" /\ conversion_status' # "InProgress") =>
          /\ conversion_status' = "Finished"
          /\ channel # <<>> /\ channel' = Tail(channel)
    /\ conversion_status # "NotStarted" => conversion_status' # "NotStarted"
    /\ \A t \in Threads :
          (th[t].pc # "idle" /\ th'[t].pc = "idle") =>
              /\ th[t].pc \in {"done", "error"}
              /\ channel' = Append(channel, th[t].pc = "done")
    /\ Len(channel') <= ChannelCapacity

\* C10: while the status is InProgress and no result is in the channel every
\* update leaves it InProgress; the status leaves InProgress only by
\* receiving the worker's result, moving to Finished; nothing returns it to
\* NotStarted and nothing ends a worker's export but its own return.
C10_HandOver == [][HandOverStep]_vars

\* The result of a worker was received: the status is Finished, the channel
\* empty again and the worker gone.
C10_Witness ==
    /\ conversion_status = "Finished" /\ channel = <<>>
    /\ \A t \in Threads : th[t].pc = "idle"

\* The window logged last by r was also written into r.output_image, and
\* r.stats are the statistics of its band.
LastWindowWritten(r) ==
    /\ r.windows # <<>>
    /\ r.pc \in {"tile", "band", "confirm", "save", "done"}
    /\ r.stats.band = WinBand(r.windows[Len(r.windows)])

\* The pixels of window win.
WindowPixels(win) ==
    (WinX(win) .. WinX(win) + WinW(win) - 1) \X (WinY(win) .. WinY(win) + WinH(win) - 1)

\* The fraction v lies in [0, 1].
InUnit(v) == v[2] > 0 /\ 0 <= v[1] /\ v[1] <= v[2]

\* C11: with normalize = true and band statistics min < max, every sample s
\* with min <= s <= max is mapped by map_range((min, max), (0, 1), s) to a
\* value in [0, 1], s = min to exactly 0 and s = max to exactly 1.  Checked
\* on the pixels the latest window wrote.
C11_UnitRange ==
    (M.normalize /\ LastWindowWritten(M) /\ M.stats.min < M.stats.max) =>
        LET win == M.windows[Len(M.windows)]
        IN  \A p \in WindowPixels(win) :
                LET s == Sample(M.data, M.raster_w, WinBand(win), p[1], p[2])
                    v == M.output_image[p][1]
                IN  (M.stats.min <= s /\ s <= M.stats.max) =>
                        /\ M.output_image[p] = Rgb(v)
                        /\ v = map_range(<<M.stats.min, M.stats.max>>, <<0, 1>>, s)
                        /\ InUnit(v)
                        /\ (s = M.stats.min) => v = Float(0)
                        /\ (s = M.stats.max) => v = Float(1)

\* A normalized 3 x 1 ramp with the samples 0, 1, 2: the pixels hold 0, 1/2
\* and 1.
C11_Witness ==
    /\ M.pc = "done" /\ M.normalize /\ M.data = "ramp" /\ M.num_bands = 1
    /\ M.raster_w = 3 /\ M.raster_h = 1 /\ M.window_scale_factor = 1
    /\ M.stats.min = 0 /\ M.stats.max = 2
    /\ M.output_image[<<0, 0>>] = Rgb(Float(0))
    /\ M.output_image[<<1, 0>>] = Rgb(Frac(1, 2))
    /\ M.output_image[<<2, 0>>] = Rgb(Float(1))

\* The fraction v is a finite number: not NaN, not an infinity.
Finite(v) == v[2] > 0

\* C12: with normalize = true and a band whose statistics have min = max,
\* mapping a sample fails with an error or yields a fixed fallback value: the
\* division by max - min = 0 is never performed and its undefined result is
\* never written into the output image.  Stated on the pixels the latest
\* window wrote: each of them holds a finite value.
C12_DegenerateRangeGuarded ==
    (M.normalize /\ LastWindowWritten(M) /\ M.stats.min = M.stats.max) =>
        LET win == M.windows[Len(M.windows)]
        IN  \A p \in WindowPixels(win) :
                \A c \in 1 .. 3 : Finite(M.output_image[p][c])

\* C13: for every window (x_offset, y_offset, w, h) and its row-major sample
\* buffer of w * h values, the sample at buffer index j * w + i is written to
\* output pixel (x_offset + i, y_offset + j) with the same mapped value in
\* all three channels, and each pixel of the window is written exactly once
\* per band: after the window of band b a pixel of it was written b times,
\* and after the tile loop of band b so was every pixel of the raster.
C13_RowMajorWrite ==
    /\ LastWindowWritten(M) =>
          LET win  == M.windows[Len(M.windows)]
              w    == WinW(win)
              h    == WinH(win)
              data == read_as(M.data, M.raster_w, WinBand(win), win[2], win[3])
          IN  /\ Len(data) = w * h
              /\ \A i \in 0 .. w - 1, j \in 0 .. h - 1 :
                    LET p == <<WinX(win) + i, WinY(win) + j>>
                        v == bw_color(M.normalize, M.stats, data[j * w + i + 1])
                    IN  /\ M.output_image[p] = <<v, v, v>>
                        /\ M.writes[p] = WinBand(win)
    /\ (M.pc \in {"band", "confirm"} /\ ValidScale(M)) =>
          \A p \in Pixels(M.raster_w, M.raster_h) : M.writes[p] = BandsDone(M)

\* The 4 x 4 raster with the values 0..15, scale factor 2 and normalize: four
\* 2 x 2 windows, pixel (0, 0) holds 0, pixel (3, 3) holds 1 and pixel (1, 2),
\* the sample 9, holds 9/15.
C13_Witness ==
    /\ M.pc = "done" /\ M.data = "ramp" /\ M.num_bands = 1 /\ M.normalize
    /\ M.raster_w = 4 /\ M.raster_h = 4 /\ M.window_scale_factor = 2
    /\ M.stats = [band |-> 1, min |-> 0, max |-> 15]
    /\ Len(M.windows) = 4
    /\ \A k \in 1 .. 4 : M.windows[k][3] = <<2, 2>>
    /\ M.output_image[<<0, 0>>] = Rgb(Float(0))
    /\ M.output_image[<<3, 3>>] = Rgb(Float(1))
    /\ M.output_image[<<1, 2>>] = Rgb(Frac(9, 15))
    /\ \A p \in Pixels(4, 4) : M.writes[p] = 1

\* Thread record r is inside export_dtm_to_exr.
Executing(r) == r.pc \in {"start", "band", "regions", "tile", "confirm", "save"}

\* Thread record r is a worker that was spawned and has not sent its result.
Unsent(r) == r.pc # "idle"

\* One step of the GUI and its workers keeps the export single.
SingleWorkerStep ==
    /\ Cardinality({t \in Threads : Executing(th'[t])}) <= 1
    /\ Cardinality({t \in Threads : Unsent(th'[t])}) <= 1
    /\ (\E t \in Threads : Unsent(th'[t])) => conversion_status' = "InProgress"
    /\ \A t \in Threads :
          (th[t].pc = "idle" /\ th'[t].pc # "idle") =>
              /\ conversion_status \in {"NotStarted", "Finished"}
              /\ conversion_status' = "InProgress"
              /\ th'[t].pc = "start"
              /\ \A u \in Threads : th[u].pc = "idle"
    /\ (conversion_status # "Finished" /\ conversion_status' = "Finished") =>
          /\ conversion_status = "InProgress"
          /\ channel # <<>>
          /\ \A t \in Threads : th[t].pc = "idle"

\* C14: in the GUI at most one worker thread is executing export_dtm_to_exr
\* at any time; a worker is spawned only from status NotStarted or Finished,
\* the status is InProgress from the spawn on as long as the worker has not
\* sent, and Finished is reached only after the previous worker has sent its
\* result.
C14_SingleWorker == [][SingleWorkerStep]_vars

\* An export is under way: the status is InProgress, nothing is in the
\* channel and the one worker is in the tile loop with a window written.
C14_Witness ==
    /\ conversion_status = "InProgress" /\ channel = <<>>
    /\ \E t \in Threads : th[t].pc = "tile" /\ th[t].windows # <<>>
    /\ Cardinality({t \in Threads : Executing(th[t])}) = 1

\* The status is InProgress, no result is in the channel and no thread is
\* left that could send one: every worker slot is free or holds a thread that
\* panicked.  channel_tx of MyApp keeps the channel connected, so try_recv
\* goes on returning Empty.
Stuck ==
    /\ conversion_status = "InProgress"
    /\ channel = <<>>
    /\ \A t \in Threads : th[t].pc \in {"idle", "panicked"}

\* No step leaves a stuck state or changes anything in it.
StuckIsFinal == [][Stuck => UNCHANGED vars]_vars

\* C15: every export started from the GUI eventually moves conversion_status
\* from InProgress to Finished, however the worker ends, also when it
\* terminates without sending; the GUI never stays in InProgress forever.
\* Stated as what every finite run must then avoid: a state with the status
\* InProgress from which nothing can ever deliver a result.
C15_NeverStuck == ~Stuck

\* The number of windows of band b along the x axis and along the y axis.
ColumnsOf(r, b) ==
    Cardinality({WinX(r.windows[k]) : k \in {j \in DOMAIN r.windows : WinBand(r.windows[j]) = b}})
RowsOf(r, b) ==
    Cardinality({WinY(r.windows[k]) : k \in {j \in DOMAIN r.windows : WinBand(r.windows[j]) = b}})

\* ceil(n / d) for d > 0.
CeilDiv(n, d) == (n + d - 1) \div d

\* C16: for every scale_factor in 1 .. min(raster_w, raster_h), every window
\* of the tile loop has width <= raster_w / scale_factor and height <=
\* raster_h / scale_factor (integer division), and the number of windows per
\* axis of a band whose tile loop is over is ceil(dimension / base size).
\* The window is checked when it is the latest one, the count where the
\* band's tile loop ends.
C16_AtMostBaseSize ==
    ValidScale(M) =>
        LET base_w == M.raster_w \div M.window_scale_factor
            base_h == M.raster_h \div M.window_scale_factor
        IN  /\ M.windows # <<>> =>
                  /\ WinW(M.windows[Len(M.windows)]) <= base_w
                  /\ WinH(M.windows[Len(M.windows)]) <= base_h
            /\ (M.pc \in {"band", "confirm"} /\ BandsDone(M) >= 1) =>
                  /\ ColumnsOf(M, BandsDone(M)) = CeilDiv(M.raster_w, base_w)
                  /\ RowsOf(M, BandsDone(M)) = CeilDiv(M.raster_h, base_h)
                  /\ Cardinality({k \in DOMAIN M.windows : WinBand(M.windows[k]) = BandsDone(M)})
                        = CeilDiv(M.raster_w, base_w) * CeilDiv(M.raster_h, base_h)

\* Width 5 read with scale factor 2: base width 2 and three columns of
\* windows, more than the scale factor; the last column is one pixel wide.
C16_Witness ==
    /\ M.pc = "confirm" /\ M.num_bands = 1
    /\ M.raster_w = 5 /\ M.raster_h = 2 /\ M.window_scale_factor = 2
    /\ ColumnsOf(M, 1) = 3 /\ RowsOf(M, 1) = 2 /\ Len(M.windows) = 6
    /\ ColumnsOf(M, 1) > M.window_scale_factor
    /\ WinW(M.windows[Len(M.windows)]) = 1

\* The export of r is past the overwrite guard: at the save, or the save is
\* over.
PastGuard(r) == r.pc \in {"save", "done"} \/ (r.pc = "error" /\ r.err = "save")

\* C17: the final overwrite guard.  If force_overwrite is true or the output
\* file does not exist, the export goes on to save without reading an answer;
\* otherwise a line is read before the save, and when it was read the export
\* aborts with an error and the file as it was exactly when the answer
\* without its trailing newline is "n" or "no"; with every other answer, an
\* empty line and end of input among them, it goes on to the save, whose
\* success replaces the file with the image.
C17_OverwriteGuard ==
    /\ (M.force_overwrite \/ ~Exists(M.file0)) =>
          ~M.asked /\ M.err \notin {"declined", "stdin"}
    /\ (PastGuard(M) /\ ~M.force_overwrite /\ Exists(M.file0)) => M.asked
    /\ (M.asked /\ M.err # "stdin") =>
          LET no == strip_suffix_newline(M.answer) \in {<<"n">>, <<"n", "o">>}
          IN  /\ ~M.force_overwrite /\ Exists(M.file0)
              /\ no <=> (M.pc = "error" /\ M.err = "declined")
              /\ no => M.file = M.file0
              /\ ~no => PastGuard(M)
    /\ M.pc = "done" => M.file = Exr(M.output_image)

\* The user answered "no" to the prompt for an existing file after a band
\* was written: the export ended with the error and the file is the old one.
C17_Witness ==
    /\ M.asked /\ M.answer = <<"n", "o", "\n">>
    /\ M.pc = "error" /\ M.err = "declined"
    /\ ~M.force_overwrite /\ M.file0 = Old /\ M.file = Old
    /\ M.windows # <<>>

\* End of input at the prompt: the save went ahead and replaced the old file.
C17_WitnessOverwrite ==
    /\ M.asked /\ M.answer = <<>> /\ M.pc = "done"
    /\ M.file0 = Old /\ M.file = Exr(M.output_image)

\* Thread record r is at tx.send(result).
Sending(r) == r.pc \in {"done", "error"}

\* C18: in the GUI the capacity-1 channel never holds more than one
\* undelivered message and a worker's send never blocks: whenever a worker is
\* at its send the channel is empty, and while a message waits in the channel
\* no worker exists that could send another.
C18_SendNeverBlocks ==
    /\ Len(channel) <= ChannelCapacity
    /\ \A t \in Threads :
          Sending(th[t]) => (channel = <<>> /\ ENABLED Send(t))
    /\ channel # <<>> =>
          /\ conversion_status = "InProgress"
          /\ \A t \in Threads : th[t].pc = "idle"

\* The worker's export failed and it has sent false: the message waits in
\* the channel for the next frame, the status still InProgress.
C18_Witness ==
    /\ channel = <<FALSE>> /\ conversion_status = "InProgress"
    /\ \A t \in Threads : th[t].pc = "idle"

=============================================================================
